---- MODULE Spec2Model ----
(***************************************************************************)
(* Warehouse API of DDP_backend (ddpui/api/warehouse_api.py): the task     *)
(* submission gateway (post_data_insights, post_warehouse_prompt), the     *)
(* background executor it feeds, and the LLM session lifecycle handlers    *)
(* (save, feedback, list).                                                 *)
(*                                                                         *)
(* Three specifications share the variables:                               *)
(*   Spec        the gateway and the executor, requests drawn from a small *)
(*               set of representative SQL texts;                          *)
(*   SpecSql     one post_warehouse_prompt request on every SQL text of up *)
(*               to MaxTokens lexemes (the limit scan as a function);      *)
(*   SpecSession the session handlers on the LlmSession table.             *)
(***************************************************************************)
EXTENDS Integers, Sequences, FiniteSets, TLC

VARIABLES
    pc,        \* position of the request being handled: "idle" between requests
    cur,       \* parameters and locals of the latest gateway request
    resp,      \* response returned by the latest step (NoResp if none returned)
    nextId,    \* number of task identifiers generated so far (uuid4 / celery id)
    progress,  \* TaskProgress store: task id -> sequence of progress entries
    guard,     \* SingleTaskProgress keys registered (task ids)
    queue,     \* jobs handed to the worker pool, not yet started
    running,   \* jobs a worker is executing
    sessions,  \* LlmSession table: session id -> row, or NoRow
    nextSid,   \* number of session rows ever created
    now,       \* clock behind updated_at
    inflight   \* session requests handled concurrently: handler -> its locals

vars == <<pc, cur, resp, nextId, progress, guard, queue, running, sessions, nextSid, now,
          inflight>>

gatewayVars == <<nextId, progress, guard, queue, running>>

sessionVars == <<sessions, nextSid, now, inflight>>

----------------------------------------------------------------------------
(* Bounds of the model *)

MaxTasks == 2

MaxEntries == 3

MaxTokens == 4

MaxSessions == 2

MaxClock == 4

MaxWindow == 2

(* Program constant *)

LIMIT_ROWS_TO_SEND_TO_LLM == 1000

----------------------------------------------------------------------------
(* Organisations; only those in WarehouseOrgs have an OrgWarehouse row *)

Orgs == {"A", "B"}

WarehouseOrgs == {"A"}

OrgWarehouseFirst(org) == org \in WarehouseOrgs

TaskIds == 1..MaxTasks

SessionIds == 1..MaxSessions

None == 0

----------------------------------------------------------------------------
(* SQL text as the sequence of its lexemes (whitespace dropped), each a    *)
(* sqlparse token: ttype and value.  A token of ttype "None" is a group    *)
(* (identifier, parenthesis, ...) whose content the scan never enters.     *)

Tok(ttype, value) == [ttype |-> ttype, value |-> value]

T_SELECT == Tok("DML", "SELECT")

T_DELETE == Tok("DML", "DELETE")

T_limit == Tok("Keyword", "limit")

T_LIMIT == Tok("Keyword", "LIMIT")

T_ALL == Tok("Keyword", "ALL")

T_group == Tok("None", "t")

T_semi == Tok("Punctuation", ";")

T_int(value) == Tok("Integer", value)

(* int(token.value) on the integer literals of the model *)
IntOf(value) ==
    CASE value = "5" -> 5
      [] value = "1000" -> 1000
      [] value = "1001" -> 1001

(* f"{n}" on the same numbers *)
StrOf(n) ==
    CASE n = 5 -> "5"
      [] n = 1000 -> "1000"
      [] n = 1001 -> "1001"

(* str.upper() on the token values of the model *)
Upper(value) == IF value = "limit" THEN "LIMIT" ELSE value

Alphabet ==
    {T_SELECT, T_DELETE, T_limit, T_ALL, T_group, T_semi,
     T_int("5"), T_int("1000"), T_int("1001")}

SqlTexts == UNION {[1..n -> Alphabet] : n \in 0..MaxTokens}

(* The texts the gateway specification submits: no statement, no LIMIT,   *)
(* LIMIT within / at / above the maximum, a non-SELECT, two statements.    *)
Payloads ==
    { <<>>,
      <<T_SELECT, T_group>>,
      <<T_SELECT, T_group, T_limit, T_int("5")>>,
      <<T_SELECT, T_group, T_limit, T_int("1001")>>,
      <<T_DELETE, T_group>>,
      <<T_SELECT, T_group, T_semi, T_SELECT, T_group>> }

(* sqlparse.parse: the statements of a text; a statement ends with its ';' *)
RECURSIVE SplitStatements(_, _)
SplitStatements(text, acc) ==
    IF text = <<>>
    THEN IF acc = <<>> THEN <<>> ELSE <<acc>>
    ELSE IF Head(text) = T_semi
         THEN <<Append(acc, Head(text))>> \o SplitStatements(Tail(text), <<>>)
         ELSE SplitStatements(Tail(text), Append(acc, Head(text)))

sqlparse_parse(text) == SplitStatements(text, <<>>)

(* Statement.get_type(): the first token's value when it is DML *)
get_type(stmt) ==
    IF stmt # <<>> /\ Head(stmt).ttype = "DML"
    THEN Upper(Head(stmt).value)
    ELSE "UNKNOWN"

(* Faulty variant: the keyword compared without upper() *)
IsLimitKeyword_NoUpper(token) == token.ttype = "Keyword" /\ token.value = "LIMIT"

(* token.ttype is Keyword and token.value.upper() == "LIMIT" *)
IsLimitKeyword(token) == token.ttype = "Keyword" /\ Upper(token.value) = "LIMIT"

(* The loop over stmt.tokens: limit_found is set at the first LIMIT keyword; *)
(* the first Integer token after it gives limit and ends the loop; limit    *)
(* stays float("inf") (is_inf) when there is none.                          *)
RECURSIVE ScanTokens(_, _)
ScanTokens(tokens, limit_found) ==
    IF tokens = <<>>
    THEN [limit_found |-> limit_found, is_inf |-> TRUE, limit |-> 0]
    ELSE LET token == Head(tokens)
             found == limit_found \/ IsLimitKeyword(token)
         IN  IF found /\ token.ttype = "Integer"
             THEN [limit_found |-> TRUE, is_inf |-> FALSE, limit |-> IntOf(token.value)]
             ELSE ScanTokens(Tail(tokens), found)

ScanLimit(stmt) == ScanTokens(stmt, FALSE)

LimitTooLarge(scan) ==
    scan.limit_found /\ (scan.is_inf \/ scan.limit > LIMIT_ROWS_TO_SEND_TO_LLM)

(* payload.sql = f"{payload.sql} LIMIT {LIMIT_ROWS_TO_SEND_TO_LLM}" *)
InjectLimit(sql) == sql \o <<T_LIMIT, T_int(StrOf(LIMIT_ROWS_TO_SEND_TO_LLM))>>

DispatchedSql(sql) ==
    IF ScanLimit(sqlparse_parse(sql)[1]).limit_found THEN sql ELSE InjectLimit(sql)

----------------------------------------------------------------------------
(* Requests, responses, jobs, progress entries *)

NoCur == [handler |-> "none", org |-> "", sql |-> <<>>, task_id |-> None]

NoResp ==
    [handler |-> "none", status |-> 0, detail |-> "", task_id |-> None,
     rows |-> <<>>, total_rows |-> 0]

HttpError(handler, status, detail) ==
    [NoResp EXCEPT !.handler = handler, !.status = status, !.detail = detail]

TaskResponse(handler, task_id) ==
    [NoResp EXCEPT !.handler = handler, !.status = 200, !.task_id = task_id]

Job(id, kind, org, sql) == [id |-> id, kind |-> kind, org |-> org, sql |-> sql]

JobIds(jobs) == {j.id : j \in jobs}

Entry(message, status, results) ==
    [message |-> message, status |-> status, results |-> results]

InitialEntry == Entry("Fetching insights", "fetching", <<>>)

(* A handler that raises before any write: the response, nothing else *)
Raise(handler, status, detail) ==
    /\ resp' = HttpError(handler, status, detail)
    /\ pc' = "idle"
    /\ UNCHANGED <<gatewayVars, sessionVars>>

----------------------------------------------------------------------------
(* post_data_insights: the warehouse check, the identifier, the initial     *)
(* entry; then the enqueue and the response.                                *)

(* taskprogress.add of the initial entry *)
InsightFirstWrite(task_id, org) ==
    /\ progress' = [progress EXCEPT ![task_id] = Append(@, InitialEntry)]
    /\ UNCHANGED queue

(* Faulty variant: the identifier and the initial entry come before the    *)
(* warehouse check                                                          *)
post_data_insights_WriteBeforeCheck(org) ==
    /\ pc = "idle"
    /\ nextId < MaxTasks
    /\ nextId' = nextId + 1
    /\ cur' = [NoCur EXCEPT !.handler = "insights", !.org = org, !.task_id = nextId + 1]
    /\ InsightFirstWrite(nextId + 1, org)
    /\ IF ~OrgWarehouseFirst(org)
       THEN /\ resp' = HttpError("insights", 404, "Please set up your warehouse first")
            /\ pc' = "idle"
       ELSE /\ resp' = NoResp
            /\ pc' = "insight_delay"
    /\ UNCHANGED <<guard, running, sessionVars>>

post_data_insights(org) ==
    /\ pc = "idle"
    /\ cur' = [NoCur EXCEPT !.handler = "insights", !.org = org,
                            !.task_id = IF OrgWarehouseFirst(org) THEN nextId + 1 ELSE None]
    /\ IF ~OrgWarehouseFirst(org)
       THEN Raise("insights", 404, "Please set up your warehouse first")
       ELSE /\ nextId < MaxTasks
            /\ nextId' = nextId + 1
            /\ \/ /\ InsightFirstWrite(nextId + 1, org)
                  /\ pc' = "insight_delay"
                  /\ resp' = NoResp
               \/ /\ resp' = HttpError("insights", 500, "taskprogress.add failed")
                  /\ pc' = "idle"
                  /\ UNCHANGED <<progress, queue>>
            /\ UNCHANGED <<guard, running, sessionVars>>

post_data_insights_delay ==
    /\ pc = "insight_delay"
    /\ pc' = "idle"
    /\ \/ /\ queue' = queue \cup {Job(cur.task_id, "insight", cur.org, <<>>)}
          /\ resp' = TaskResponse("insights", cur.task_id)
       \/ /\ resp' = HttpError("insights", 500, "delay failed")
          /\ UNCHANGED queue
    /\ UNCHANGED <<cur, nextId, progress, guard, running, sessionVars>>

----------------------------------------------------------------------------
(* post_warehouse_prompt: the checks, the limit injection and apply_async;  *)
(* then SingleTaskProgress(task.id, 600) and the response.                  *)

post_warehouse_prompt(org, sql) ==
    LET stmts == sqlparse_parse(sql)
        rejected == [NoCur EXCEPT !.handler = "ask", !.org = org, !.sql = sql]
    IN
    /\ pc = "idle"
    /\ IF Len(stmts) > 1
       THEN cur' = rejected /\ Raise("ask", 400, "Only one query is allowed")
       ELSE IF Len(stmts) = 0
       THEN cur' = rejected /\ Raise("ask", 400, "No query provided")
       ELSE IF get_type(stmts[1]) # "SELECT"
       THEN cur' = rejected /\ Raise("ask", 400, "Only SELECT queries are allowed")
       ELSE IF ~OrgWarehouseFirst(org)
       THEN cur' = rejected /\ Raise("ask", 404, "Please set up your warehouse first")
       ELSE IF LimitTooLarge(ScanLimit(stmts[1]))
       THEN cur' = rejected /\ Raise("ask", 400, "Please make sure the limit in query is less than 1000")
       ELSE /\ nextId < MaxTasks
            /\ \/ /\ nextId' = nextId + 1
                  /\ queue' = queue \cup {Job(nextId + 1, "llm", org, DispatchedSql(sql))}
                  /\ cur' = [NoCur EXCEPT !.handler = "ask", !.org = org, !.sql = sql,
                                          !.task_id = nextId + 1]
                  /\ pc' = "llm_guard"
                  /\ resp' = NoResp
               \/ /\ resp' = HttpError("ask", 400, "failed to summarize warehouse results")
                  /\ cur' = [NoCur EXCEPT !.handler = "ask", !.org = org, !.sql = sql]
                  /\ pc' = "idle"
                  /\ UNCHANGED <<nextId, queue>>
            /\ UNCHANGED <<progress, guard, running, sessionVars>>

(* SingleTaskProgress(task.id, 60 * 10): registers the key, or raises *)
SingleTaskProgress(task_id) == guard' = guard \cup {task_id}

post_warehouse_prompt_guard ==
    /\ pc = "llm_guard"
    /\ pc' = "idle"
    /\ \/ /\ SingleTaskProgress(cur.task_id)
          /\ resp' = TaskResponse("ask", cur.task_id)
       \/ /\ resp' = HttpError("ask", 400, "failed to summarize warehouse results")
          /\ UNCHANGED guard
    /\ UNCHANGED <<cur, nextId, progress, queue, running, sessionVars>>

----------------------------------------------------------------------------
(* Background executor (celery workers) *)

ExecStart ==
    \E job \in queue :
        /\ queue' = queue \ {job}
        /\ running' = running \cup {job}
        /\ resp' = NoResp
        /\ UNCHANGED <<pc, cur, nextId, progress, guard, sessionVars>>

(* poll_for_column_insights: one more sub-query done, partial results *)
ExecInsightStep ==
    \E job \in running :
        /\ job.kind = "insight"
        /\ Len(progress[job.id]) < MaxEntries - 1
        /\ progress' = [progress EXCEPT ![job.id] =
                            Append(@, Entry("partial", "fetching", <<"metric">>))]
        /\ resp' = NoResp
        /\ UNCHANGED <<pc, cur, nextId, guard, queue, running, sessionVars>>

(* The terminal entry of a job *)
ExecFinish ==
    \E job \in running, status \in {"completed", "error"} :
        /\ running' = running \ {job}
        /\ progress' = [progress EXCEPT ![job.id] =
                            Append(@, Entry("done", status, <<"result">>))]
        /\ resp' = NoResp
        /\ UNCHANGED <<pc, cur, nextId, guard, queue, sessionVars>>

----------------------------------------------------------------------------
(* LlmSession rows *)

Null == "<null>"

NoRow == [org |-> "", session_type |-> "", session_status |-> "",
          session_name |-> Null, feedback |-> Null, updated_at |-> 0]

LONG_TEXT_SUMMARIZATION == "long_text_summarization"

RUNNING == "running"

(* The handlers only ask whether a status is RUNNING: "completed" stands   *)
(* for the statuses of a run that has ended.                                *)
SessionStatuses == {RUNNING, "completed"}

Names == {"q1", "q2"}

Feedbacks == {"good"}

(* Faulty variant: the lookup without org=org *)
FindSession_AnyOrg(session_id, org) ==
    IF /\ session_id \in SessionIds
       /\ sessions[session_id] # NoRow
       /\ sessions[session_id].session_type = LONG_TEXT_SUMMARIZATION
    THEN sessions[session_id]
    ELSE NoRow

(* LlmSession.objects.filter(session_id=.., org=.., session_type=LONG..).first() *)
FindSession(session_id, org) ==
    IF /\ session_id \in SessionIds
       /\ sessions[session_id] # NoRow
       /\ sessions[session_id].org = org
       /\ sessions[session_id].session_type = LONG_TEXT_SUMMARIZATION
    THEN sessions[session_id]
    ELSE NoRow

(* The worker that runs summarize_warehouse_results persists a session row *)
CreateSession(org, session_status) ==
    /\ pc = "idle"
    /\ nextSid < MaxSessions
    /\ now < MaxClock
    /\ nextSid' = nextSid + 1
    /\ now' = now + 1
    /\ sessions' = [sessions EXCEPT ![nextSid + 1] =
                        [org |-> org, session_type |-> LONG_TEXT_SUMMARIZATION,
                         session_status |-> session_status, session_name |-> Null,
                         feedback |-> Null, updated_at |-> now + 1]]
    /\ resp' = NoResp
    /\ UNCHANGED <<pc, cur, gatewayVars, inflight>>

(* ... and updates it when the run ends *)
FinishSession(session_id, session_status) ==
    /\ pc = "idle"
    /\ now < MaxClock
    /\ sessions[session_id] # NoRow
    /\ sessions[session_id].session_status = RUNNING
    /\ session_status # RUNNING
    /\ now' = now + 1
    /\ sessions' = [sessions EXCEPT ![session_id].session_status = session_status,
                                    ![session_id].updated_at = now + 1]
    /\ resp' = NoResp
    /\ UNCHANGED <<pc, cur, nextSid, gatewayVars, inflight>>

----------------------------------------------------------------------------
(* post_save_warehouse_prompt_session *)

(* Faulty variant: the old_session_id requirement left out *)
MissingOldSession_Never(overwrite, old_session_id) == FALSE

(* payload.overwrite and not payload.old_session_id *)
MissingOldSession(overwrite, old_session_id) == overwrite /\ old_session_id = None

(* The table after the overwrite branch: old_session.delete() when found *)
DeleteOldSession(org, overwrite, old_session_id) ==
    IF overwrite /\ FindSession(old_session_id, org) # NoRow
    THEN [sessions EXCEPT ![old_session_id] = NoRow]
    ELSE sessions

(* What the handler answers and leaves in the table. new_session.save()   *)
(* writes the instance read at the top of the handler: an UPDATE of the    *)
(* row, or an INSERT when the row is gone.                                  *)
SaveOutcome(org, new_session_id, session_name, overwrite, old_session_id) ==
    LET new_session == FindSession(new_session_id, org)
        kept == DeleteOldSession(org, overwrite, old_session_id)
    IN  IF new_session = NoRow
        THEN [resp |-> HttpError("save", 404, "Session not found"),
              sessions |-> sessions, now |-> now]
        ELSE IF MissingOldSession(overwrite, old_session_id)
        THEN [resp |-> HttpError("save", 400, "session to overwrite is required"),
              sessions |-> sessions, now |-> now]
        ELSE IF new_session.session_status = RUNNING
        THEN [resp |-> HttpError("save", 400, "Session is still in progress"),
              sessions |-> kept, now |-> now]
        ELSE [resp |-> [NoResp EXCEPT !.handler = "save", !.status = 200],
              sessions |-> [kept EXCEPT ![new_session_id] =
                               [new_session EXCEPT !.session_name = session_name,
                                                   !.updated_at = now + 1]],
              now |-> now + 1]

post_save_warehouse_prompt_session(org, new_session_id, session_name, overwrite, old_session_id) ==
    /\ pc = "idle"
    /\ \E out \in {SaveOutcome(org, new_session_id, session_name, overwrite, old_session_id)} :
          /\ out.now <= MaxClock
          /\ resp' = out.resp
          /\ sessions' = out.sessions
          /\ now' = out.now
    /\ UNCHANGED <<pc, cur, nextSid, gatewayVars, inflight>>

----------------------------------------------------------------------------
(* post_feedback_llm_session *)

(* What the handler answers and leaves in the table *)
FeedbackOutcome(org, session_id, feedback) ==
    LET session == FindSession(session_id, org)
    IN  IF session = NoRow
        THEN [resp |-> HttpError("feedback", 404, "Session not found"),
              sessions |-> sessions, now |-> now]
        ELSE [resp |-> [NoResp EXCEPT !.handler = "feedback", !.status = 200],
              sessions |-> [sessions EXCEPT ![session_id] =
                               [session EXCEPT !.feedback = feedback,
                                               !.updated_at = now + 1]],
              now |-> now + 1]

post_feedback_llm_session(org, session_id, feedback) ==
    /\ pc = "idle"
    /\ \E out \in {FeedbackOutcome(org, session_id, feedback)} :
          /\ out.now <= MaxClock
          /\ resp' = out.resp
          /\ sessions' = out.sessions
          /\ now' = out.now
    /\ UNCHANGED <<pc, cur, nextSid, gatewayVars, inflight>>

----------------------------------------------------------------------------
(* post_save_warehouse_prompt_session and post_feedback_llm_session handled *)
(* by two workers at once: each reads the row with filter(...).first(),     *)
(* sets one attribute of the instance it has read and calls save(), which   *)
(* writes every column of that instance.  One request of each kind; the    *)
(* save request is a rename (overwrite false), so the overwrite branch is   *)
(* not entered.                                                             *)

RaceHandlers == {"save", "feedback"}

NoLocals ==
    [pc |-> "idle", org |-> "", session_id |-> None, value |-> Null, row |-> NoRow,
     status |-> 0, wrote_at |-> 0]

Answer(locals, status) == [locals EXCEPT !.pc = "done", !.status = status]

(* new_session = LlmSession.objects.filter(...).first() and the checks *)
save_read(org, new_session_id, session_name) ==
    LET new_session == FindSession(new_session_id, org)
        locals == [NoLocals EXCEPT !.org = org, !.session_id = new_session_id,
                                   !.value = session_name, !.row = new_session]
    IN
    /\ pc = "idle"
    /\ inflight["save"].pc = "idle"
    /\ inflight' = [inflight EXCEPT !["save"] =
                        IF new_session = NoRow THEN Answer(locals, 404)
                        ELSE IF new_session.session_status = RUNNING THEN Answer(locals, 400)
                        ELSE [locals EXCEPT !.pc = "write"]]
    /\ UNCHANGED <<pc, cur, resp, gatewayVars, sessions, nextSid, now>>

(* Faulty variant: save(update_fields=["session_name"]) on the row as it is *)
save_write_UpdateFields ==
    /\ pc = "idle"
    /\ inflight["save"].pc = "write"
    /\ now < MaxClock
    /\ now' = now + 1
    /\ sessions' = [sessions EXCEPT ![inflight["save"].session_id] =
                        [@ EXCEPT !.session_name = inflight["save"].value,
                                  !.updated_at = now + 1]]
    /\ inflight' = [inflight EXCEPT !["save"] =
                        [Answer(@, 200) EXCEPT !.wrote_at = now + 1]]
    /\ UNCHANGED <<pc, cur, resp, gatewayVars, nextSid>>

(* new_session.session_name = payload.session_name; new_session.save() *)
save_write ==
    /\ pc = "idle"
    /\ inflight["save"].pc = "write"
    /\ now < MaxClock
    /\ now' = now + 1
    /\ sessions' = [sessions EXCEPT ![inflight["save"].session_id] =
                        [inflight["save"].row EXCEPT
                            !.session_name = inflight["save"].value,
                            !.updated_at = now + 1]]
    /\ inflight' = [inflight EXCEPT !["save"] =
                        [Answer(@, 200) EXCEPT !.wrote_at = now + 1]]
    /\ UNCHANGED <<pc, cur, resp, gatewayVars, nextSid>>

(* session = LlmSession.objects.filter(...).first() and the check *)
feedback_read(org, session_id, feedback) ==
    LET session == FindSession(session_id, org)
        locals == [NoLocals EXCEPT !.org = org, !.session_id = session_id,
                                   !.value = feedback, !.row = session]
    IN
    /\ pc = "idle"
    /\ inflight["feedback"].pc = "idle"
    /\ inflight' = [inflight EXCEPT !["feedback"] =
                        IF session = NoRow THEN Answer(locals, 404)
                        ELSE [locals EXCEPT !.pc = "write"]]
    /\ UNCHANGED <<pc, cur, resp, gatewayVars, sessions, nextSid, now>>

(* session.feedback = payload.feedback; session.save() *)
feedback_write ==
    /\ pc = "idle"
    /\ inflight["feedback"].pc = "write"
    /\ now < MaxClock
    /\ now' = now + 1
    /\ sessions' = [sessions EXCEPT ![inflight["feedback"].session_id] =
                        [inflight["feedback"].row EXCEPT
                            !.feedback = inflight["feedback"].value,
                            !.updated_at = now + 1]]
    /\ inflight' = [inflight EXCEPT !["feedback"] =
                        [Answer(@, 200) EXCEPT !.wrote_at = now + 1]]
    /\ UNCHANGED <<pc, cur, resp, gatewayVars, nextSid>>

----------------------------------------------------------------------------
(* get_warehouse_llm_analysis_sessions *)

(* Faulty variant: the filter without session_name__isnull=False *)
SavedFilter_NoNameCheck(row, org) ==
    /\ row # NoRow
    /\ row.org = org
    /\ row.session_type = LONG_TEXT_SUMMARIZATION

(* filter(org=org, session_name__isnull=False, session_type=LONG..) *)
SavedFilter(row, org) ==
    /\ row # NoRow
    /\ row.org = org
    /\ row.session_name # Null
    /\ row.session_type = LONG_TEXT_SUMMARIZATION

SavedSessions(org) == {s \in SessionIds : SavedFilter(sessions[s], org)}

(* Faulty variant: order_by("updated_at"), oldest first *)
RECURSIVE OrderByUpdatedAsc(_)
OrderByUpdatedAsc(ids) ==
    IF ids = {} THEN <<>>
    ELSE LET first == CHOOSE s \in ids :
                          \A u \in ids : sessions[s].updated_at <= sessions[u].updated_at
         IN  <<first>> \o OrderByUpdatedAsc(ids \ {first})

(* order_by("-updated_at"): the ids of a set of rows, latest first *)
RECURSIVE OrderByUpdatedDesc(_)
OrderByUpdatedDesc(ids) ==
    IF ids = {} THEN <<>>
    ELSE LET first == CHOOSE s \in ids :
                          \A u \in ids : sessions[u].updated_at <= sessions[s].updated_at
         IN  <<first>> \o OrderByUpdatedDesc(ids \ {first})

(* rows[start:stop] *)
Slice(rows, start, stop) ==
    SubSeq(rows, start + 1, IF stop < Len(rows) THEN stop ELSE Len(rows))

ListRows(org, limit, offset) ==
    Slice(OrderByUpdatedDesc(SavedSessions(org)), offset, offset + limit)

(* The response body: limit, offset, the page of rows and the total count *)
ListResponse(org, limit, offset) ==
    [NoResp EXCEPT !.handler = "list", !.status = 200,
                   !.rows = ListRows(org, limit, offset),
                   !.total_rows = Cardinality(SavedSessions(org))]

get_warehouse_llm_analysis_sessions(org, limit, offset) ==
    /\ pc = "idle"
    /\ resp' = ListResponse(org, limit, offset)
    /\ UNCHANGED <<pc, cur, gatewayVars, sessionVars>>

----------------------------------------------------------------------------

InitGateway ==
    /\ pc = "idle"
    /\ cur = NoCur
    /\ resp = NoResp
    /\ nextId = 0
    /\ progress = [t \in TaskIds |-> <<>>]
    /\ guard = {}
    /\ queue = {}
    /\ running = {}

Init ==
    /\ InitGateway
    /\ sessions = [s \in SessionIds |-> NoRow]
    /\ nextSid = 0
    /\ now = 0
    /\ inflight = [h \in RaceHandlers |-> NoLocals]

Next ==
    \/ \E org \in Orgs : post_data_insights(org)
    \/ post_data_insights_delay
    \/ \E org \in Orgs, sql \in Payloads : post_warehouse_prompt(org, sql)
    \/ post_warehouse_prompt_guard
    \/ ExecStart
    \/ ExecInsightStep
    \/ ExecFinish

Spec == Init /\ [][Next]_vars

(* One post_warehouse_prompt request, on any text of up to MaxTokens lexemes *)
NextSql ==
    \/ /\ resp = NoResp
       /\ \E sql \in SqlTexts : post_warehouse_prompt("A", sql)
    \/ post_warehouse_prompt_guard

SpecSql == Init /\ [][NextSql]_vars

NextSession ==
    \/ \E org \in Orgs, session_status \in SessionStatuses :
          CreateSession(org, session_status)
    \/ \E session_id \in SessionIds, session_status \in SessionStatuses :
          FinishSession(session_id, session_status)
    \/ \E org \in Orgs, new_session_id \in SessionIds, session_name \in Names,
          overwrite \in BOOLEAN :
          \E old_session_id \in (IF overwrite THEN SessionIds ELSE {}) \cup {None} :
              post_save_warehouse_prompt_session(org, new_session_id, session_name,
                                                 overwrite, old_session_id)
    \/ \E org \in Orgs, session_id \in SessionIds, feedback \in Feedbacks :
          post_feedback_llm_session(org, session_id, feedback)
    \/ \E org \in Orgs, limit \in 0..MaxWindow, offset \in 0..MaxWindow :
          get_warehouse_llm_analysis_sessions(org, limit, offset)

SpecSession == Init /\ [][NextSession]_vars

(* The two handlers interleaved at their database accesses *)
NextRace ==
    \/ \E org \in Orgs, session_status \in SessionStatuses :
          CreateSession(org, session_status)
    \/ \E session_id \in SessionIds, session_status \in SessionStatuses :
          FinishSession(session_id, session_status)
    \/ \E org \in Orgs, new_session_id \in SessionIds, session_name \in Names :
          save_read(org, new_session_id, session_name)
    \/ save_write
    \/ \E org \in Orgs, session_id \in SessionIds, feedback \in Feedbacks :
          feedback_read(org, session_id, feedback)
    \/ feedback_write

SpecRace == Init /\ [][NextRace]_vars

----------------------------------------------------------------------------
(* Properties of the submission gateway *)

SubmitHandlers == {"insights", "ask"}

NotConfiguredDetails == {"Please set up your warehouse first"}

InvalidQueryDetails ==
    {"Only one query is allowed", "No query provided", "Only SELECT queries are allowed",
     "Please make sure the limit in query is less than 1000"}

InternalDetails ==
    {"taskprogress.add failed", "delay failed", "failed to summarize warehouse results"}

ErrKind(r) ==
    IF r.handler \notin SubmitHandlers THEN "none"
    ELSE IF r.detail \in NotConfiguredDetails THEN "NotConfigured"
    ELSE IF r.detail \in InvalidQueryDetails THEN "InvalidQuery"
    ELSE IF r.detail \in InternalDetails THEN "Internal"
    ELSE "none"

IsFetchingEntry(e) == e.status = "fetching" /\ e.results = <<>>

(* C2: a submission (insight or LLM) rejected by a precondition check --    *)
(* NotConfigured, or InvalidQuery for zero statements, several statements,  *)
(* a non-SELECT or a limit above the maximum -- issues no task identifier,  *)
(* enqueues nothing and writes no progress entry and no guard.              *)
C2_RejectionHasNoSideEffect ==
    [][ErrKind(resp') \in {"NotConfigured", "InvalidQuery"}
          => /\ UNCHANGED <<nextId, progress, guard, queue, running>>
             /\ cur'.task_id = None]_vars

(* C2 witness: both kinds of rejection happen while earlier work is stored *)
C2_Witness ==
    /\ ErrKind(resp) = "InvalidQuery"
    /\ resp.detail = "Only one query is allowed"
    /\ queue # {}
    /\ progress[1] # <<>>

(* C3: whenever a submission (insight or LLM) has just returned a task     *)
(* identifier, the progress of that identifier starts with a FETCHING entry *)
(* with empty results.                                                      *)
C3_Original ==
    (resp.handler \in SubmitHandlers /\ resp.status = 200)
        => /\ progress[resp.task_id] # <<>>
           /\ IsFetchingEntry(progress[resp.task_id][1])

HasLimitClause(sql) ==
    \E i \in 1..Len(sql) : sql[i] \in {Tok("Keyword", "limit"), Tok("Keyword", "LIMIT")}

(* C4: the SQL of an accepted LLM submission is handed to the executor     *)
(* followed by " LIMIT 1000" when the submitted statement has no LIMIT      *)
(* clause of its own, and unchanged when it has one.                        *)
C4_DispatchedSql ==
    \A job \in queue :
        (job.kind = "llm" /\ cur.handler = "ask" /\ job.id = cur.task_id)
            => job.sql = IF HasLimitClause(cur.sql)
                         THEN cur.sql
                         ELSE cur.sql \o <<Tok("Keyword", "LIMIT"), Tok("Integer", "1000")>>

(* C4 witness: a submission with its own limit went through unchanged *)
C4_Witness ==
    /\ resp.handler = "ask"
    /\ resp.status = 200
    /\ HasLimitClause(cur.sql)
    /\ \E job \in queue : job.id = resp.task_id /\ job.sql = cur.sql

(* The row limit a statement runs under: the integer literal that directly *)
(* follows its first LIMIT keyword; None when there is no such literal.     *)
EffectiveLimit(sql) ==
    LET at == {i \in 1..Len(sql) : sql[i].ttype = "Keyword" /\ Upper(sql[i].value) = "LIMIT"}
    IN  IF at = {} THEN None
        ELSE LET i == CHOOSE k \in at : \A m \in at : k <= m
             IN  IF i < Len(sql) /\ sql[i + 1].ttype = "Integer"
                 THEN IntOf(sql[i + 1].value)
                 ELSE None

(* C5: every LLM job enqueued carries SQL whose row limit is present and   *)
(* at most the configured maximum.                                          *)
C5_Original ==
    \A job \in queue \cup running :
        job.kind = "llm"
            => /\ EffectiveLimit(job.sql) # None
               /\ EffectiveLimit(job.sql) <= LIMIT_ROWS_TO_SEND_TO_LLM

(* C6: two submission errors of different kinds (NotConfigured,            *)
(* InvalidQuery, Internal) never carry the same status code; stated on two  *)
(* responses in a row.                                                      *)
C6_Original ==
    [][(/\ ErrKind(resp) # "none"
        /\ ErrKind(resp') # "none"
        /\ ErrKind(resp) # ErrKind(resp'))
          => resp.status # resp'.status]_vars

(* C7: when a submission has just returned an error, no job of that        *)
(* request is queued or running.                                            *)
C7_Original ==
    (/\ pc = "idle"
     /\ resp.handler \in SubmitHandlers
     /\ resp.status # 200
     /\ cur.task_id # None)
        => cur.task_id \notin JobIds(queue \cup running)

(* C13: between requests, a task whose progress still ends with a FETCHING *)
(* entry has a job queued or running that will append to it: an insight     *)
(* submission that failed to enqueue leaves no entry behind.                *)
C13_Original ==
    pc = "idle"
        => \A t \in TaskIds :
              (progress[t] # <<>> /\ progress[t][Len(progress[t])].status = "fetching")
                  => t \in JobIds(queue \cup running)

----------------------------------------------------------------------------
(* Properties of the session handlers *)

Owned(session_id, org) ==
    /\ session_id \in SessionIds
    /\ sessions[session_id] # NoRow
    /\ sessions[session_id].org = org
    /\ sessions[session_id].session_type = LONG_TEXT_SUMMARIZATION

(* C1: a save with overwrite and old_session_id = X, on an existing RUNNING *)
(* target with X existing in the same org, fails with "Session is still in  *)
(* progress" and deletes or renames nothing: X, another session than the    *)
(* target, is still there afterwards.                                       *)
C1_Original ==
    [][\A org \in Orgs, target \in SessionIds, name \in Names, X \in SessionIds :
          (/\ resp'.handler = "save"
           /\ X # target
           /\ Owned(target, org)
           /\ sessions[target].session_status = RUNNING
           /\ Owned(X, org)
           /\ post_save_warehouse_prompt_session(org, target, name, TRUE, X))
             => /\ resp'.status = 400
                /\ resp'.detail = "Session is still in progress"
                /\ sessions'[X] # NoRow
                /\ sessions' = sessions]_vars

(* C8: a save with overwrite on an existing target (a) without              *)
(* old_session_id fails with 400 "session to overwrite is required" and     *)
(* changes no row; (b) with an old_session_id that names no session of the  *)
(* org, on a target that is not RUNNING, succeeds, names the target and     *)
(* touches no other row; (c) with an old_session_id that names a session of *)
(* the org, on a target that is not RUNNING, succeeds, leaves the target    *)
(* named and the old session, when it is another row, deleted.              *)
C8_SaveWithOverwrite ==
    \A org \in Orgs, target \in SessionIds, name \in Names,
       old \in SessionIds \cup {None} :
       Owned(target, org) =>
          \A out \in {SaveOutcome(org, target, name, TRUE, old)} :
              /\ old = None
                   => /\ out.resp.status = 400
                      /\ out.resp.detail = "session to overwrite is required"
                      /\ out.sessions = sessions
              /\ (/\ old # None
                  /\ ~Owned(old, org)
                  /\ sessions[target].session_status # RUNNING)
                   => /\ out.resp.status = 200
                      /\ out.sessions[target] # NoRow
                      /\ out.sessions[target].session_name = name
                      /\ \A s \in SessionIds \ {target} : out.sessions[s] = sessions[s]
              /\ (/\ old # None
                  /\ Owned(old, org)
                  /\ sessions[target].session_status # RUNNING)
                   => /\ out.resp.status = 200
                      /\ out.sessions[target] # NoRow
                      /\ out.sessions[target].session_name = name
                      /\ old # target => out.sessions[old] = NoRow

(* C8 witness: a save has just succeeded, its target is named and the other *)
(* session, which had been saved under a name, is gone                      *)
C8_Witness ==
    /\ resp.handler = "save"
    /\ resp.status = 200
    /\ nextSid = 2
    /\ sessions[1] = NoRow
    /\ sessions[2] # NoRow
    /\ sessions[2].session_name = "q2"

(* The sessions a list of the org returns when the window takes them all *)
Listed(org) ==
    LET rows == ListRows(org, MaxSessions, 0)
    IN  {rows[i] : i \in 1..Len(rows)}

ListedIffNamed ==
    /\ \A s \in SessionIds :
          sessions[s] # NoRow
              => (s \in Listed(sessions[s].org) <=> sessions[s].session_name # Null)
    /\ \A org \in Orgs : \A s \in Listed(org) : Owned(s, org)
    /\ resp.handler = "list"
          => \A i \in 1..Len(resp.rows) :
                /\ sessions[resp.rows[i]] # NoRow
                /\ sessions[resp.rows[i]].session_name # Null

(* A session on which save has just returned success, the row that save   *)
(* has stamped with the new time, is listed for its org                     *)
SavedIsListed ==
    (resp'.handler = "save" /\ resp'.status = 200)
        => /\ now' = now + 1
           /\ \E s \in SessionIds :
                 sessions'[s] # NoRow /\ sessions'[s].updated_at = now'
           /\ \A s \in SessionIds :
                 (sessions'[s] # NoRow /\ sessions'[s].updated_at = now')
                     => \A org \in Orgs : sessions'[s].org = org => s \in Listed(org)'

(* A listed session whose row is still there is still listed *)
ListedStaysListed ==
    (sessions' # sessions)
        => \A org \in Orgs :
              \A after \in {Listed(org)'} :
                 \A s \in Listed(org) : sessions'[s] # NoRow => s \in after

ListCorrect(r, org, limit, offset) ==
    LET saved == {s \in SessionIds : Owned(s, org) /\ sessions[s].session_name # Null}
        n == Cardinality(saved)
        later(s) == {u \in saved : sessions[u].updated_at > sessions[s].updated_at}
        len == IF offset >= n THEN 0
               ELSE IF n - offset < limit THEN n - offset ELSE limit
    IN  /\ r.total_rows = n
        /\ Len(r.rows) = len
        /\ \A i \in 1..Len(r.rows) :
              /\ r.rows[i] \in saved
              /\ Cardinality(later(r.rows[i])) = offset + i - 1

(* C10: list_saved(org, limit, offset) returns the named sessions of the   *)
(* org, latest updated_at first, at positions offset .. offset+limit-1 of   *)
(* that order, and total_rows is the number of all named sessions of the    *)
(* org whatever the window.                                                 *)
C10_ListSaved ==
    \A org \in Orgs, limit \in 0..MaxWindow, offset \in 0..MaxWindow :
       ListCorrect(ListResponse(org, limit, offset), org, limit, offset)

(* C10 witness: two named sessions of one org, and a response holding both, *)
(* the later one first, although it is the row with the smaller id          *)
C10_Witness ==
    /\ resp.handler = "list"
    /\ resp.rows = <<1, 2>>
    /\ resp.total_rows = 2
    /\ sessions[1].updated_at > sessions[2].updated_at

(* Rows of other organisations than org are the same in both tables *)
ForeignRowsKept(org, table) ==
    \A s \in SessionIds :
        (sessions[s] # NoRow /\ sessions[s].org # org) => table[s] = sessions[s]

IsForeign(session_id, org) ==
    /\ session_id \in SessionIds
    /\ sessions[session_id] # NoRow
    /\ sessions[session_id].org # org

(* What any save, feedback or list request would do to the rows of other   *)
(* organisations than the requester's, in the current table                 *)
TenantIsolation ==
    /\ \A org \in Orgs, target \in SessionIds, name \in Names, overwrite \in BOOLEAN :
          \A old \in (IF overwrite THEN SessionIds ELSE {}) \cup {None} :
             \A out \in {SaveOutcome(org, target, name, overwrite, old)} :
                /\ ForeignRowsKept(org, out.sessions)
                /\ IsForeign(target, org)
                      => /\ out.resp = HttpError("save", 404, "Session not found")
                         /\ out.sessions = sessions
                /\ (/\ IsForeign(old, org)
                    /\ Owned(target, org)
                    /\ sessions[target].session_status # RUNNING)
                      => /\ out.resp.status = 200
                         /\ out.sessions[old] = sessions[old]
    /\ \A org \in Orgs, target \in SessionIds, feedback \in Feedbacks :
          \A out \in {FeedbackOutcome(org, target, feedback)} :
             /\ ForeignRowsKept(org, out.sessions)
             /\ IsForeign(target, org)
                   => /\ out.resp = HttpError("feedback", 404, "Session not found")
                      /\ out.sessions = sessions
    /\ \A org \in Orgs, limit \in 0..MaxWindow, offset \in 0..MaxWindow :
          \A out \in {ListResponse(org, limit, offset)} :
             /\ \A i \in 1..Len(out.rows) : Owned(out.rows[i], org)
             /\ out.total_rows <= Cardinality({s \in SessionIds : Owned(s, org)})

(* C11: in every reachable state, a save, feedback or list request of one  *)
(* org leaves every row of another org as it is and lists none of them; a   *)
(* target id that belongs to another org is answered 404 "Session not       *)
(* found" with the table unchanged, and an old_session_id that belongs to   *)
(* another org is skipped: the save of a target that is not RUNNING still   *)
(* succeeds.                                                                *)
C11_TenantIsolation == []TenantIsolation

(* C11 witness: both organisations own a session, and a save has just been *)
(* answered 404: every id names a row, so the request named the row of the  *)
(* other organisation, which is untouched                                   *)
C11_Witness ==
    /\ resp = HttpError("save", 404, "Session not found")
    /\ sessions[1] # NoRow
    /\ sessions[2] # NoRow
    /\ sessions[1].org # sessions[2].org
    /\ sessions[1].session_name = Null
    /\ sessions[2].session_name = Null

----------------------------------------------------------------------------
(* Properties of concurrent save and feedback *)

(* Both handlers have returned success for the same session *)
BothSucceeded ==
    /\ inflight["save"].pc = "done"
    /\ inflight["save"].status = 200
    /\ inflight["feedback"].pc = "done"
    /\ inflight["feedback"].status = 200
    /\ inflight["save"].session_id = inflight["feedback"].session_id

RacedRow == sessions[inflight["save"].session_id]

(* C12: when save and feedback have both returned success for the same     *)
(* session, its row holds the session_name of the save and the feedback of  *)
(* the feedback request.                                                    *)
C12_Original ==
    BothSucceeded
        => /\ RacedRow.session_name = inflight["save"].value
           /\ RacedRow.feedback = inflight["feedback"].value

(* C12 amended: when save and feedback have both returned success for the  *)
(* same session and nothing has written the row since, the row holds the    *)
(* field of the request that wrote last; it holds the field of the other    *)
(* request when the last writer read the row after the other had written,   *)
(* and otherwise that field is back at the value the last writer had read.  *)
C12_LastWriterWins ==
    LET save == inflight["save"]
        feedback == inflight["feedback"]
    IN  /\ (BothSucceeded /\ RacedRow.updated_at = save.wrote_at)
              => /\ feedback.wrote_at < save.wrote_at
                 /\ RacedRow.session_name = save.value
                 /\ save.row.updated_at >= feedback.wrote_at
                       => RacedRow.feedback = feedback.value
                 /\ save.row.updated_at < feedback.wrote_at
                       => RacedRow.feedback = save.row.feedback
        /\ (BothSucceeded /\ RacedRow.updated_at = feedback.wrote_at)
              => /\ save.wrote_at < feedback.wrote_at
                 /\ RacedRow.feedback = feedback.value
                 /\ feedback.row.updated_at >= save.wrote_at
                       => RacedRow.session_name = save.value
                 /\ feedback.row.updated_at < save.wrote_at
                       => RacedRow.session_name = feedback.row.session_name

(* C12 witness: both requests returned success, the feedback request read  *)
(* the row before the save wrote it and wrote last: the name is lost        *)
C12_Witness ==
    /\ BothSucceeded
    /\ RacedRow.updated_at = inflight["feedback"].wrote_at
    /\ inflight["feedback"].row.updated_at < inflight["save"].wrote_at
    /\ RacedRow.feedback = inflight["feedback"].value
    /\ RacedRow.session_name = Null

====
